---- MODULE Spec2Model ----
(***************************************************************************)
(* API-key lifecycle of the metering backend: key issuance, listing,       *)
(* soft revocation and request authentication over the api_keys table.     *)
(* Every service function is split at its database round trips, so that    *)
(* two sessions interleave exactly where two requests can.  The fixed-     *)
(* window rate limiter over the Redis counter store is modelled beside it, *)
(* split at its two Redis commands.                                        *)
(***************************************************************************)
EXTENDS Integers, Sequences, FiniteSets, TLC

\* ------------------------------------------------------------------ bounds
\* The clock runs over 0..MaxTime.
MaxTime == 1

\* time.time() runs over 0..MaxUnix.
MaxUnix == 5

\* window_seconds of check_rate_limit (60 by default), in clock units.
window_seconds == 2

\* The limit callers pass: the org's rate_limit_rpm (60 by default).
rate_limit_rpm == 2

\* ------------------------------------------------------- program constants
\* plaintext[:12] in create_api_key
PREFIX_LEN == 12
\* A nullable timestamp is <<>> (SQL NULL / Python None) or <<t>>.
NULL == <<>>

Some(t) == <<t>>

\* "smp_live_", one character per element
KEY_PREFIX_TAG == <<"s", "m", "p", "_", "l", "i", "v", "e", "_">>

\* The characters plaintexts are made of, in a fixed order; Ord is the
\* position of a character in it (its byte value under encode()).
Alphabet == <<"0", "1", "2", "3", "a", "b", "e", "f", "i", "k", "l", "m", "p", "s", "v", "_">>

Ord(c) == CHOOSE i \in 1..Len(Alphabet) : Alphabet[i] = c

\* The values secrets.token_hex is seen to return (it may return one twice);
\* the two share the displayed prefix "smp_live_a1b".
TokenHexDraws == { <<"a", "1", "b", "2">>, <<"a", "1", "b", "3">> }

\* Two concurrent database sessions (one per request in flight).
Procs == {"r1", "r2"}

\* The orgs that exist; the caller is authorised for the org it names.
Orgs == {1, 2}

\* The orgs created in a run of the org and member endpoints.
MaxOrgs == 1

\* The Redis clients created and the close_redis calls made in a run of
\* the client pool.
MaxClients == 3
MaxCloses == 2

\* The worker threads that call get_redis and close_redis.
Threads == {"t1", "t2"}

\* rd_out while no call has just returned.
NoReturn == [thread |-> "none", op |-> "none", client |-> 0, raised |-> "none"]

Names == {"CI Runner"}

\* The concurrent callers of check_rate_limit.
RlProcs == {"w1", "w2"}

\* The key_id values check_rate_limit is called with.
KeyIds == {1, 2}


VARIABLES
    api_keys,   \* the api_keys table: a sequence of rows, row i has id i
    now,        \* the clock (datetime.now / the store's now())
    pc,         \* per session: where its service call stands
    sess,       \* per session: the call's arguments and its loaded ORM object
    out,        \* the response the last step delivered, NoResponse otherwise
    issued,     \* what create calls have answered: the id and plaintext
                \* of each key, with the org it was asked for
    unix,       \* int(time.time())
    redis,      \* the counter store: Redis key |-> its count and its expiry
    rl_pc,      \* per caller: where its check_rate_limit call stands
    rl_sess,    \* per caller: the locals of its call
    rl_out,     \* the RateLimitResult the last step returned, NoResult otherwise
    rl_log,     \* per Redis key: what each increment of it observed, in order
    users,      \* the users table: a sequence of rows, row i has id i
    orgs,       \* the orgs table: a sequence of rows, row i has id i
    org_members,    \* the org_members table: <<org_id, user_id>> |-> role
    current_user,   \* per session: the user get_current_user resolved for
                    \* its latest request, 0 before any
    sync_pool,      \* redis.py's module global _sync_pool: 0 for None, else
                    \* the number of the client it refers to
    clients,        \* the Redis clients created so far: client i is open or
                    \* closed, and was created after so many close_redis calls
    closes,         \* the close_redis calls begun so far
    rd_pc,          \* per thread: where it is in get_redis or close_redis
    rd_out          \* what the latest step returned to its caller, if it returned

key_vars == <<api_keys, now, pc, sess, out, issued>>

rl_vars == <<unix, redis, rl_pc, rl_sess, rl_out, rl_log>>

org_vars == <<users, orgs, org_members, current_user>>

pool_vars == <<sync_pool, clients, closes, rd_pc, rd_out>>

vars == <<api_keys, now, pc, sess, out, issued, unix, redis, rl_pc, rl_sess, rl_out, rl_log,
          users, orgs, org_members, current_user, sync_pool, clients, closes, rd_pc, rd_out>>

Time == 0..MaxTime

\* ------------------------------------------------------------ pure helpers
\* A position-weighted checksum of the characters of s from position i on.
RECURSIVE Checksum(_, _)
Checksum(s, i) ==
    IF i > Len(s) THEN 0 ELSE i * Ord(s[i]) + Checksum(s, i + 1)

\* _generate_raw_key with token_hex's draw made explicit
generate_raw_key(random_part) == KEY_PREFIX_TAG \o random_part

\* hash_key: a deterministic digest computed from every character of the
\* plaintext.  SHA-256 is collision resistant: the credentials in play
\* (Headers below) have pairwise distinct digests, as DigestsDistinct says.
hash_key(plaintext) == Checksum(plaintext, 1)

\* The prefix cut at the tag's eight characters.
KeyPrefixOfEight(plaintext) == SubSeq(plaintext, 1, 8)

\* plaintext[:12]
KeyPrefix(plaintext) ==
    SubSeq(plaintext, 1, IF Len(plaintext) < PREFIX_LEN THEN Len(plaintext) ELSE PREFIX_LEN)

\* ------------------------------------------------------------------- rows
\* ApiKey(org_id, name, key_prefix, key_hash) as the store completes it on
\* insert: id from the primary key, is_active from its default, created_at
\* from server_default now(), the nullable timestamps NULL.
ApiKey(id, org_id, name, prefix, hashed, t) ==
    [ id           |-> id,
      org_id       |-> org_id,
      name         |-> name,
      key_prefix   |-> prefix,
      key_hash     |-> hashed,
      is_active    |-> TRUE,
      created_at   |-> t,
      expires_at   |-> NULL,
      last_used_at |-> NULL ]

Ids == 1..Len(api_keys)

\* A plain (non-unique) index admits every insert.
PlainIndexAdmits(hashed) == TRUE

\* The unique index ix_api_keys_key_hash: an insert of a digest a row
\* already has is rejected.
UniqueIndexAdmits(hashed) == \A i \in Ids : api_keys[i].key_hash # hashed

\* The revoke lookup by id alone.
SelectById(org_id, key_id) == { i \in Ids : i = key_id }

\* The revoke lookup over the active keys only.
SelectActiveByIdAndOrg(org_id, key_id) ==
    { i \in Ids : i = key_id /\ api_keys[i].org_id = org_id /\ api_keys[i].is_active }

\* select(ApiKey).where(ApiKey.id == key_id, ApiKey.org_id == org_id)
SelectByIdAndOrg(org_id, key_id) ==
    { i \in Ids : i = key_id /\ api_keys[i].org_id = org_id }

\* The lookup by is_active alone.
SelectActive(key_hash) == { i \in Ids : api_keys[i].is_active }

\* The lookup without its is_active filter.
SelectByHash(key_hash) == { i \in Ids : api_keys[i].key_hash = key_hash }

\* select(ApiKey).where(ApiKey.key_hash == key_hash, ApiKey.is_active.is_(True))
SelectActiveByHash(key_hash) ==
    { i \in Ids : api_keys[i].key_hash = key_hash /\ api_keys[i].is_active }

\* api_key.expires_at and api_key.expires_at < datetime.now(timezone.utc)
IsExpired(expires_at, t) == expires_at # NULL /\ expires_at[1] < t

\* The revoke that also forgets when the key was last used.
RevokedForgettingUse(row) == [row EXCEPT !.is_active = FALSE, !.last_used_at = NULL]

\* api_key.is_active = False; db.commit(): UPDATE ... SET is_active
Revoked(row) == [row EXCEPT !.is_active = FALSE]

\* The touch as a write of the whole loaded object, is_active as it was read.
TouchedWholeRow(row, t) == [row EXCEPT !.last_used_at = Some(t), !.is_active = TRUE]

\* The touch of a key that was never used, and of no other.
TouchedIfNeverUsed(row, t) ==
    IF row.last_used_at = NULL THEN [row EXCEPT !.last_used_at = Some(t)] ELSE row

\* api_key.last_used_at = now; db.commit(): UPDATE ... SET last_used_at
Touched(row, t) == [row EXCEPT !.last_used_at = Some(t)]

\* ------------------------------------------------------- response schemas
\* ApiKeyCreateOut
ApiKeyCreateOut(row, plaintext) ==
    [ id         |-> row.id,
      name       |-> row.name,
      key        |-> plaintext,
      key_prefix |-> row.key_prefix,
      created_at |-> row.created_at ]

\* The row itself as the response.
ApiKeyOutOfAllColumns(row) == row

\* ApiKeyOut
ApiKeyOut(row) ==
    [ id           |-> row.id,
      name         |-> row.name,
      key_prefix   |-> row.key_prefix,
      is_active    |-> row.is_active,
      created_at   |-> row.created_at,
      expires_at   |-> row.expires_at,
      last_used_at |-> row.last_used_at ]

\* out: the session answered, its call, what the call was asked, its HTTP
\* status, its body.
NoResponse == [proc |-> "none", op |-> "none", req |-> <<>>, status |-> 0, body |-> <<>>]

Response(op, req, status, body) ==
    [proc |-> "none", op |-> op, req |-> req, status |-> status, body |-> body]

\* A session between two calls.
IdleSess == [op |-> "none"]

\* The X-API-Key header: absent, or present with a value.
NoHeader == [present |-> FALSE, value |-> <<>>]

Header(v) == [present |-> TRUE, value |-> v]

\* A credential that is no generated key ("smp_live_fake").
FakeKey == KEY_PREFIX_TAG \o <<"f", "a", "k", "e">>

Headers ==
    {NoHeader, Header(<<>>), Header(FakeKey)}
        \cup { Header(generate_raw_key(r)) : r \in TokenHexDraws }

\* The credentials presented have pairwise distinct digests.
DigestsDistinct ==
    \A g, h \in Headers : hash_key(g.value) = hash_key(h.value) => g.value = h.value

\* The test for an absent header alone.
HeaderAbsent(raw_key) == ~raw_key.present

\* `not raw_key`
Falsy(raw_key) == ~raw_key.present \/ raw_key.value = <<>>

\* ------------------------------------------------------ the rate limiter
\* The window taken to start at the call.
WindowStartAtCall(t) == t

\* now - (now % window_seconds)
WindowStart(t) == t - (t % window_seconds)

\* window_start + window_seconds
WindowEnd(window_start) == window_start + window_seconds

\* The Redis key without the key_id.
RedisKeyOfWindow(key_id, window_start) == <<"rl", 0, window_start>>

\* f"rl:{key_id}:{window_start}"
RedisKey(key_id, window_start) == <<"rl", key_id, window_start>>

\* The increment that stops counting once a call has been denied.
IncrUntilDenied(store, k) ==
    [j \in DOMAIN store \cup {k} |->
        IF j = k
        THEN IF k \in DOMAIN store
             THEN [store[k] EXCEPT !.count = IF @ > rate_limit_rpm THEN @ ELSE @ + 1]
             ELSE [count |-> 1, expire_at |-> NULL]
        ELSE store[j]]

\* SET key 1 in place of the increment.
IncrOverwriting(store, k) ==
    [j \in DOMAIN store \cup {k} |->
        IF j = k
        THEN [count |-> 1, expire_at |-> IF k \in DOMAIN store THEN store[k].expire_at ELSE NULL]
        ELSE store[j]]

\* Redis INCR: a missing key counts from 0 and is created without expiry;
\* the expiry of an existing key is kept.
Incr(store, k) ==
    [j \in DOMAIN store \cup {k} |->
        IF j = k
        THEN IF k \in DOMAIN store
             THEN [store[k] EXCEPT !.count = @ + 1]
             ELSE [count |-> 1, expire_at |-> NULL]
        ELSE store[j]]

\* An expiry of one second whatever is asked.
ExpireAfterOne(store, k, seconds, t) ==
    IF k \in DOMAIN store
    THEN [store EXCEPT ![k].expire_at = Some(t + 1)]
    ELSE store

\* Redis EXPIRE at time t: the key is to be removed `seconds` from now;
\* a missing key stays missing.
Expire(store, k, seconds, t) ==
    IF k \in DOMAIN store
    THEN [store EXCEPT ![k].expire_at = Some(t + seconds)]
    ELSE store

\* Redis at time t holds the keys whose expiry has not come.
Unexpired(store, t) ==
    [k \in { j \in DOMAIN store :
                store[j].expire_at = NULL \/ store[j].expire_at[1] > t } |-> store[k]]

\* The expiry set after every increment.
AnyCount(current_count) == TRUE

\* current_count == 1
CreatedCounter(current_count) == current_count = 1

\* limit - current_count without the floor.
RemainingUnfloored(limit, current_count) == limit - current_count

\* max(0, limit - current_count)
Remaining(limit, current_count) ==
    IF limit - current_count > 0 THEN limit - current_count ELSE 0

\* The admission with one request to spare.
AllowedWithOneToSpare(limit, current_count) == current_count <= limit + 1

\* current_count <= limit
Allowed(limit, current_count) == current_count <= limit

RateLimitResult(allowed, limit, remaining, reset_at) ==
    [allowed |-> allowed, limit |-> limit, remaining |-> remaining, reset_at |-> reset_at]

\* rl_out: the caller that returned, the key_id and window of its call,
\* the count its increment returned, its RateLimitResult.
NoResult == [proc |-> "none", key_id |-> 0, window_start |-> 0, current_count |-> 0,
             result |-> <<>>]

\* The entry an increment leaves in rl_log: when it ran, what it returned,
\* and the result its call computes from that.
Observed(t, current_count, result) ==
    [at |-> t, current_count |-> current_count, result |-> result]

Logged(log, k, entry) ==
    [j \in DOMAIN log \cup {k} |->
        IF j = k
        THEN IF k \in DOMAIN log THEN Append(log[k], entry) ELSE <<entry>>
        ELSE log[j]]

\* ------------------------------------------------------------------- Init
Init ==
    /\ api_keys = <<>>
    /\ now = 0
    /\ pc = [p \in Procs |-> "idle"]
    /\ sess = [p \in Procs |-> IdleSess]
    /\ out = NoResponse
    /\ issued = {}
    /\ unix = 0
    /\ redis = <<>>
    /\ rl_pc = [p \in RlProcs |-> "idle"]
    /\ rl_sess = [p \in RlProcs |-> IdleSess]
    /\ rl_out = NoResult
    /\ rl_log = <<>>
    /\ users = <<>>
    /\ orgs = <<>>
    /\ org_members = <<>>
    /\ current_user = [p \in Procs |-> 0]
    /\ sync_pool = 0
    /\ clients = <<>>
    /\ closes = 0
    /\ rd_pc = [t \in Threads |-> "idle"]
    /\ rd_out = NoReturn

\* Session p answers its request.
Answer(p, response) ==
    /\ pc' = [pc EXCEPT ![p] = "idle"]
    /\ sess' = [sess EXCEPT ![p] = IdleSess]
    /\ out' = [response EXCEPT !.proc = p]
    /\ UNCHANGED rl_vars
    /\ UNCHANGED pool_vars

\* Session p goes on to the next round trip of its request.
Continue(p, label, s) ==
    /\ pc' = [pc EXCEPT ![p] = label]
    /\ sess' = [sess EXCEPT ![p] = s]
    /\ out' = NoResponse
    /\ UNCHANGED rl_vars
    /\ UNCHANGED pool_vars

\* A step of a key-store call or of get_current_api_key: none of them calls
\* check_rate_limit or reaches Redis, and none writes users, orgs or
\* org_members.
Finish(p, response) ==
    /\ Answer(p, response)
    /\ UNCHANGED org_vars

Goto(p, label, s) ==
    /\ Continue(p, label, s)
    /\ UNCHANGED org_vars

\* -------------------------------------------------------- create_api_key
\* plaintext = _generate_raw_key(): the call has drawn its key and has not
\* yet reached the store.
CreateGenerate(p, org_id, name, random_part) ==
    /\ pc[p] = "idle"
    /\ Goto(p, "create_commit",
            [op |-> "create", org_id |-> org_id, name |-> name,
             plaintext |-> generate_raw_key(random_part)])
    /\ UNCHANGED <<api_keys, now, issued>>

\* prefix, hashed, db.add, db.commit (the INSERT), db.refresh, and the
\* endpoint's ApiKeyCreateOut.  A digest the unique index rejects raises
\* IntegrityError out of the call (HTTP 500) and nothing is stored.
CreateCommit(p) ==
    /\ pc[p] = "create_commit"
    /\ LET plaintext == sess[p].plaintext
           prefix == KeyPrefix(plaintext)
           hashed == hash_key(plaintext)
           req == [org_id |-> sess[p].org_id, name |-> sess[p].name]
           row == ApiKey(Len(api_keys) + 1, sess[p].org_id, sess[p].name, prefix, hashed, now)
       IN  IF UniqueIndexAdmits(hashed)
           THEN /\ api_keys' = Append(api_keys, row)
                /\ issued' = issued \cup {[id |-> row.id, org_id |-> sess[p].org_id, key |-> plaintext]}
                /\ Finish(p, Response("create", req, 201, ApiKeyCreateOut(row, plaintext)))
           ELSE /\ api_keys' = api_keys
                /\ issued' = issued
                /\ Finish(p, Response("create", req, 500, [detail |-> "IntegrityError"]))
    /\ UNCHANGED now

\* --------------------------------------------------------- list_api_keys
\* The listing over the active keys only.
ActiveKeysOfOrg(org_id) ==
    { i \in Ids : api_keys[i].org_id = org_id /\ api_keys[i].is_active }

\* The listing without its org filter.
KeysOfAnyOrg(org_id) == Ids

\* .where(ApiKey.org_id == org_id)
KeysOfOrg(org_id) == { i \in Ids : api_keys[i].org_id = org_id }

\* .order_by(ApiKey.created_at.desc()): the orders the store may answer in.
\* Rows of equal created_at come in any order.
OrderedByCreatedAtDesc(S) ==
    { f \in [1..Cardinality(S) -> S] :
        /\ \A i, j \in 1..Cardinality(S) : i # j => f[i] # f[j]
        /\ \A i, j \in 1..Cardinality(S) :
              i < j => api_keys[f[i]].created_at >= api_keys[f[j]].created_at }

ListKeys(p, org_id) ==
    /\ pc[p] = "idle"
    /\ \E f \in OrderedByCreatedAtDesc(KeysOfOrg(org_id)) :
          Finish(p, Response("list", [org_id |-> org_id], 200,
                             [i \in DOMAIN f |-> ApiKeyOut(api_keys[f[i]])]))
    /\ UNCHANGED <<api_keys, now, issued>>

\* -------------------------------------------------------- revoke_api_key
\* The scoped SELECT; scalar_one_or_none() is None for a wrong org or a
\* missing id, and the endpoint answers 404.
RevokeSelect(p, org_id, key_id) ==
    /\ pc[p] = "idle"
    /\ LET found == SelectByIdAndOrg(org_id, key_id)
           req == [org_id |-> org_id, key_id |-> key_id]
       IN  IF found = {}
           THEN Finish(p, Response("revoke", req, 404, [detail |-> "API key not found"]))
           ELSE Goto(p, "revoke_commit", [op |-> "revoke", req |-> req, key_id |-> key_id])
    /\ UNCHANGED <<api_keys, now, issued>>

\* api_key.is_active = False; db.commit(); db.refresh(api_key); return
\* api_key; response_model=ApiKeyOut
RevokeCommit(p) ==
    /\ pc[p] = "revoke_commit"
    /\ LET row == Revoked(api_keys[sess[p].key_id])
       IN  /\ api_keys' = [api_keys EXCEPT ![sess[p].key_id] = row]
           /\ Finish(p, Response("revoke", sess[p].req, 200, ApiKeyOut(row)))
    /\ UNCHANGED <<now, issued>>

\* ------------------------------- get_current_api_key / get_key_by_hash
\* The 401 with a detail of its own for a credential the table knows.
UnauthorizedNamingTheCause(raw_key, detail) ==
    Response("auth", [raw_key |-> raw_key], 401,
             [detail |-> IF SelectByHash(hash_key(raw_key.value)) # {}
                         THEN "Revoked or expired API key" ELSE detail])

\* HTTPException(status_code=401, detail=...)
Unauthorized(raw_key, detail) ==
    Response("auth", [raw_key |-> raw_key], 401, [detail |-> detail])

\* get_current_api_key up to the first SELECT of get_key_by_hash.
AuthSelect(p, raw_key) ==
    /\ pc[p] = "idle"
    /\ IF Falsy(raw_key)
       THEN Finish(p, Unauthorized(raw_key, "Missing X-API-Key header"))
       ELSE LET found == SelectActiveByHash(hash_key(raw_key.value))
            IN  IF found = {}
                THEN Finish(p, Unauthorized(raw_key, "Invalid or revoked API key"))
                ELSE \E i \in found :
                        Goto(p, "auth_touch",
                             [op |-> "auth", raw_key |-> raw_key, key_id |-> i,
                              expires_at |-> api_keys[i].expires_at])
    /\ UNCHANGED <<api_keys, now, issued>>

\* The touch committed before the expiry check is made.
AuthTouchBeforeExpiryCheck(p) ==
    /\ pc[p] = "auth_touch"
    /\ api_keys' = [api_keys EXCEPT ![sess[p].key_id] = Touched(@, now)]
    /\ IF IsExpired(sess[p].expires_at, now)
       THEN Finish(p, Unauthorized(sess[p].raw_key, "Invalid or revoked API key"))
       ELSE Goto(p, "auth_refresh", sess[p])
    /\ UNCHANGED <<now, issued>>

\* The expiry check on the loaded object, then last_used_at and db.commit().
AuthTouch(p) ==
    /\ pc[p] = "auth_touch"
    /\ IF IsExpired(sess[p].expires_at, now)
       THEN /\ Finish(p, Unauthorized(sess[p].raw_key, "Invalid or revoked API key"))
            /\ api_keys' = api_keys
       ELSE /\ api_keys' = [api_keys EXCEPT ![sess[p].key_id] = Touched(@, now)]
            /\ Goto(p, "auth_refresh", sess[p])
    /\ UNCHANGED <<now, issued>>

\* db.refresh(api_key); return api_key: the row as the store holds it now.
AuthRefresh(p) ==
    /\ pc[p] = "auth_refresh"
    /\ Finish(p, Response("auth", [raw_key |-> sess[p].raw_key], 200,
                          api_keys[sess[p].key_id]))
    /\ UNCHANGED <<api_keys, now, issued>>

\* --------------------------------------------------- the store failing
\* An exception out of a dependency is answered by the framework.
InternalServerError(raw_key) ==
    Response("auth", [raw_key |-> raw_key], 500, [detail |-> "Internal Server Error"])

\* db.execute(stmt) of get_key_by_hash raises (the store is down or times
\* out): nothing catches it in get_key_by_hash or get_current_api_key.
AuthSelectUnavailable(p, raw_key) ==
    /\ pc[p] = "idle"
    /\ ~Falsy(raw_key)
    /\ Finish(p, InternalServerError(raw_key))
    /\ UNCHANGED <<api_keys, now, issued>>

\* db.commit() of the last_used_at write raises: the UPDATE is not stored
\* and the exception leaves get_key_by_hash.
AuthTouchUnavailable(p) ==
    /\ pc[p] = "auth_touch"
    /\ ~IsExpired(sess[p].expires_at, now)
    /\ Finish(p, InternalServerError(sess[p].raw_key))
    /\ UNCHANGED <<api_keys, now, issued>>

\* db.refresh(api_key) raises after the commit went through.
AuthRefreshUnavailable(p) ==
    /\ pc[p] = "auth_refresh"
    /\ Finish(p, InternalServerError(sess[p].raw_key))
    /\ UNCHANGED <<api_keys, now, issued>>

\* ------------------------------------------------------------ environment
\* Time passes.
Tick ==
    /\ now < MaxTime
    /\ now' = now + 1
    /\ out' = NoResponse
    /\ UNCHANGED <<api_keys, pc, sess, issued>>
    /\ UNCHANGED rl_vars
    /\ UNCHANGED pool_vars
    /\ UNCHANGED org_vars

\* expires_at is a nullable column no service function writes: the
\* operator of the store gives a key its expiry.
SetExpiresAt(i, t) ==
    /\ i \in Ids
    /\ api_keys[i].expires_at = NULL
    /\ api_keys' = [api_keys EXCEPT ![i].expires_at = Some(t)]
    /\ out' = NoResponse
    /\ UNCHANGED <<now, pc, sess, issued>>
    /\ UNCHANGED rl_vars
    /\ UNCHANGED pool_vars
    /\ UNCHANGED org_vars

\* ------------------------------------------------------------------- Next
\* The calls sessions P make for orgs O with token_hex drawing from R.
Calls(P, O, R) ==
    \/ \E p \in P, org_id \in O, name \in Names, r \in R :
          CreateGenerate(p, org_id, name, r)
    \/ \E p \in P : CreateCommit(p)
    \/ \E p \in P, org_id \in O : ListKeys(p, org_id)
    \/ \E p \in P, org_id \in O, key_id \in 1..(Len(api_keys) + 1) :
          RevokeSelect(p, org_id, key_id)
    \/ \E p \in P : RevokeCommit(p)
    \/ \E p \in P, raw_key \in Headers : AuthSelect(p, raw_key)
    \/ \E p \in P : AuthTouch(p)
    \/ \E p \in P : AuthRefresh(p)

\* Two sessions interleave at every round trip to the store, within one
\* instant of the clock: no service function writes expires_at, so in these
\* runs the clock decides nothing but the value of the timestamps.
Next == Calls(Procs, Orgs, TokenHexDraws)

Spec == Init /\ [][Next]_vars

\* One session and one org while time passes and keys are given an expiry.
NextTimed ==
    \/ Calls({"r1"}, {1}, TokenHexDraws)
    \/ Tick
    \/ \E i \in Ids, t \in Time : SetExpiresAt(i, t)

SpecTimed == Init /\ [][NextTimed]_vars

\* The same, with a store that may fail any round trip of an authentication.
NextFaults ==
    \/ NextTimed
    \/ \E raw_key \in Headers : AuthSelectUnavailable("r1", raw_key)
    \/ AuthTouchUnavailable("r1")
    \/ AuthRefreshUnavailable("r1")

SpecFaults == Init /\ [][NextFaults]_vars

\* -------------------------------------------------------- check_rate_limit
\* From the read of the clock to the answer of INCR.  A call whose count
\* is not 1 sends no EXPIRE and returns here.
CheckRateLimitIncr(p, key_id, limit) ==
    /\ rl_pc[p] = "idle"
    /\ LET window_start == WindowStart(unix)
           window_end == WindowEnd(window_start)
           redis_key == RedisKey(key_id, window_start)
           store == Incr(redis, redis_key)
           current_count == store[redis_key].count
           result == RateLimitResult(Allowed(limit, current_count), limit,
                                     Remaining(limit, current_count), window_end)
           locals == [op |-> "check_rate_limit", key_id |-> key_id, limit |-> limit,
                      window_start |-> window_start, redis_key |-> redis_key,
                      current_count |-> current_count, result |-> result]
       IN  /\ redis' = store
           /\ rl_log' = Logged(rl_log, redis_key, Observed(unix, current_count, result))
           /\ IF CreatedCounter(current_count)
              THEN /\ rl_pc' = [rl_pc EXCEPT ![p] = "expire"]
                   /\ rl_sess' = [rl_sess EXCEPT ![p] = locals]
                   /\ rl_out' = NoResult
              ELSE /\ rl_pc' = rl_pc
                   /\ rl_sess' = rl_sess
                   /\ rl_out' = [proc |-> p, key_id |-> key_id, window_start |-> window_start,
                                 current_count |-> current_count, result |-> result]
    /\ UNCHANGED unix
    /\ UNCHANGED key_vars
    /\ UNCHANGED pool_vars
    /\ UNCHANGED org_vars

\* redis_client.expire(redis_key, window_seconds * 2), then the return.
CheckRateLimitExpire(p) ==
    /\ rl_pc[p] = "expire"
    /\ redis' = Expire(redis, rl_sess[p].redis_key, window_seconds * 2, unix)
    /\ rl_pc' = [rl_pc EXCEPT ![p] = "idle"]
    /\ rl_sess' = [rl_sess EXCEPT ![p] = IdleSess]
    /\ rl_out' = [proc |-> p, key_id |-> rl_sess[p].key_id,
                  window_start |-> rl_sess[p].window_start,
                  current_count |-> rl_sess[p].current_count,
                  result |-> rl_sess[p].result]
    /\ UNCHANGED <<unix, rl_log>>
    /\ UNCHANGED key_vars
    /\ UNCHANGED pool_vars
    /\ UNCHANGED org_vars

\* redis_client.expire raises (the connection is lost, or the worker
\* is stopped) after INCR went through: the call ends without a result
\* and nothing resends the EXPIRE.
CheckRateLimitInterrupted(p) ==
    /\ rl_pc[p] = "expire"
    /\ rl_pc' = [rl_pc EXCEPT ![p] = "idle"]
    /\ rl_sess' = [rl_sess EXCEPT ![p] = IdleSess]
    /\ rl_out' = NoResult
    /\ UNCHANGED <<unix, redis, rl_log>>
    /\ UNCHANGED key_vars
    /\ UNCHANGED pool_vars
    /\ UNCHANGED org_vars

\* A second passes, up to `until`; Redis drops the keys whose expiry has come.
UnixTick(until) ==
    /\ unix < until
    /\ unix' = unix + 1
    /\ redis' = Unexpired(redis, unix + 1)
    /\ rl_out' = NoResult
    /\ UNCHANGED <<rl_pc, rl_sess, rl_log>>
    /\ UNCHANGED key_vars
    /\ UNCHANGED pool_vars
    /\ UNCHANGED org_vars

\* The calls made so far for key_id in the window of the clock.
CallsInWindow(key_id) ==
    LET k == RedisKey(key_id, WindowStart(unix))
    IN  IF k \in DOMAIN rl_log THEN Len(rl_log[k]) ELSE 0

\* Two callers at a time on the keys K, each with the limit of the key's
\* org and up to `beyond` calls past it in a window, while the clock runs
\* up to `until`.
RateCalls(K, until, beyond) ==
    \/ \E p \in RlProcs, key_id \in K :
          /\ CallsInWindow(key_id) < rate_limit_rpm + beyond
          /\ CheckRateLimitIncr(p, key_id, rate_limit_rpm)
    \/ \E p \in RlProcs : CheckRateLimitExpire(p)
    \/ UnixTick(until)

\* Two keys within the first window, each called until two calls are denied.
NextRate == RateCalls(KeyIds, window_seconds - 1, 2)

SpecRate == Init /\ [][NextRate]_vars

\* One key over the windows up to MaxUnix, long enough for the counter of
\* the first window to expire, called until one call in a window is denied.
NextRateTimed == RateCalls({1}, MaxUnix, 1)

SpecRateTimed == Init /\ [][NextRateTimed]_vars

\* The same with calls that may be cut off before their EXPIRE, called up
\* to the limit.
NextRateFaults ==
    \/ RateCalls({1}, MaxUnix, 0)
    \/ \E p \in RlProcs : CheckRateLimitInterrupted(p)

SpecRateFaults == Init /\ [][NextRateFaults]_vars

\* ------------------------------------------------------------- signup
\* The emails signup is sent, one character per element: "a@x",
\* "  A@X " and "b@x".
EmailInputs ==
    { <<"a", "@", "x">>, <<" ", " ", "A", "@", "X", " ">>, <<"b", "@", "x">> }

\* str.lower() on one character
Lower(c) == CASE c = "A" -> "a" [] c = "X" -> "x" [] OTHER -> c

\* str.strip()
RECURSIVE Strip(_)
Strip(e) ==
    IF e = <<>> THEN e
    ELSE IF Head(e) = " " THEN Strip(Tail(e))
    ELSE IF e[Len(e)] = " " THEN Strip(SubSeq(e, 1, Len(e) - 1))
    ELSE e

\* _normalize_email: email.strip().lower()
normalize_email(email) == [i \in 1..Len(Strip(email)) |-> Lower(Strip(email)[i])]

\* select(User).where(User.email == email)
SelectUserByEmail(email) == { i \in 1..Len(users) : users[i].email = email }

\* The unique index on users.email that create_user's IntegrityError
\* handler answers to.
UsersEmailIndexAdmits(email) == SelectUserByEmail(email) = {}

\* UserOut
UserOut(row) == [id |-> row.id, email |-> row.email]

\* signup up to the answer of get_user_by_email.
SignupSelect(p, email) ==
    /\ pc[p] = "idle"
    /\ IF SelectUserByEmail(normalize_email(email)) # {}
       THEN Answer(p, Response("signup", [email |-> email], 400,
                               [detail |-> "Email already registered"]))
       ELSE Continue(p, "signup_commit", [op |-> "signup", email |-> email])
    /\ UNCHANGED <<api_keys, now, issued>>
    /\ UNCHANGED org_vars

\* create_user: the INSERT at db.commit() and db.refresh(user).  On
\* IntegrityError it rolls back and raises ValueError, which signup does
\* not catch: the framework answers 500.
SignupCommit(p) ==
    /\ pc[p] = "signup_commit"
    /\ LET normalized_email == normalize_email(sess[p].email)
           user == [id |-> Len(users) + 1, email |-> normalized_email]
       IN  IF UsersEmailIndexAdmits(normalized_email)
           THEN /\ users' = Append(users, user)
                /\ Answer(p, Response("signup", [email |-> sess[p].email], 201, UserOut(user)))
           ELSE /\ users' = users
                /\ Answer(p, Response("signup", [email |-> sess[p].email], 500,
                                      [detail |-> "Internal Server Error"]))
    /\ UNCHANGED <<api_keys, now, issued>>
    /\ UNCHANGED <<orgs, org_members, current_user>>

\* Two signups at a time.
NextSignup ==
    \/ \E p \in Procs, email \in EmailInputs : SignupSelect(p, email)
    \/ \E p \in Procs : SignupCommit(p)

SpecSignup == Init /\ [][NextSignup]_vars

\* ------------------------------------------------------ orgs and members
VALID_ROLES == {"owner", "admin", "member"}

\* The roles the member and key endpoints admit.
KeyManagers == {"owner", "admin"}

OrgNames == {"Acme"}

\* Three users have signed up.
RegisteredUsers ==
    << [id |-> 1, email |-> <<"a", "@", "x">>],
       [id |-> 2, email |-> <<"b", "@", "x">>],
       [id |-> 3, email |-> <<"c", "@", "x">>] >>

\* The emails add_member_endpoint is sent: those of the users and one
\* that nobody registered.
MemberEmails ==
    { RegisteredUsers[i].email : i \in 1..Len(RegisteredUsers) } \cup { <<"z", "@", "x">> }

InitOrgs ==
    /\ api_keys = <<>>
    /\ now = 0
    /\ pc = [p \in Procs |-> "idle"]
    /\ sess = [p \in Procs |-> IdleSess]
    /\ out = NoResponse
    /\ issued = {}
    /\ unix = 0
    /\ redis = <<>>
    /\ rl_pc = [p \in RlProcs |-> "idle"]
    /\ rl_sess = [p \in RlProcs |-> IdleSess]
    /\ rl_out = NoResult
    /\ rl_log = <<>>
    /\ users = RegisteredUsers
    /\ orgs = <<>>
    /\ org_members = <<>>
    /\ current_user = [p \in Procs |-> 0]
    /\ sync_pool = 0
    /\ clients = <<>>
    /\ closes = 0
    /\ rd_pc = [t \in Threads |-> "idle"]
    /\ rd_out = NoReturn

\* get_membership
IsMember(org_id, user_id) == <<org_id, user_id>> \in DOMAIN org_members

\* The owners of an org in a state m of org_members.
OwnersOf(m, org_id) ==
    { k[2] : k \in { k \in DOMAIN m : k[1] = org_id /\ m[k] = "owner" } }

\* count_org_owners
count_org_owners(org_id, exclude_user_id) ==
    Cardinality(OwnersOf(org_members, org_id) \ {exclude_user_id})

\* The role check that admits any member of the org.
RequireMembership(org_id, user_id, allowed) ==
    IF ~IsMember(org_id, user_id)
    THEN [status |-> 404, detail |-> "Org not found or no access", role |-> "none"]
    ELSE [status |-> 200, detail |-> "", role |-> org_members[<<org_id, user_id>>]]

\* require_org_role: 404 for a user without a membership, 403 for a role
\* outside allowed, else the role.
require_org_role(org_id, user_id, allowed) ==
    IF ~IsMember(org_id, user_id)
    THEN [status |-> 404, detail |-> "Org not found or no access", role |-> "none"]
    ELSE IF org_members[<<org_id, user_id>>] \notin allowed
    THEN [status |-> 403, detail |-> "Insufficient role", role |-> "none"]
    ELSE [status |-> 200, detail |-> "", role |-> org_members[<<org_id, user_id>>]]

OrgOut(org) == [id |-> org.id, name |-> org.name]

OrgMemberOut(user, role) == [user_id |-> user.id, email |-> user.email, role |-> role]

\* The bearer token of session p's requests resolves to the user user_id.
getCurrentUser(p, user_id) ==
    /\ pc[p] = "idle"
    /\ user_id \in 1..Len(users)
    /\ current_user[p] # user_id
    /\ current_user' = [current_user EXCEPT ![p] = user_id]
    /\ out' = NoResponse
    /\ UNCHANGED <<api_keys, now, pc, sess, issued, users, orgs, org_members>>
    /\ UNCHANGED rl_vars
    /\ UNCHANGED pool_vars

\* create_org_endpoint / create_org: the org and the owner membership of
\* its creator are committed in one transaction.
CreateOrg(p, name) ==
    /\ pc[p] = "idle"
    /\ current_user[p] # 0
    /\ Len(orgs) < MaxOrgs
    /\ LET org == [id |-> Len(orgs) + 1, name |-> name]
       IN  /\ orgs' = Append(orgs, org)
           /\ org_members' = org_members @@ (<<org.id, current_user[p]>> :> "owner")
           /\ Answer(p, Response("create_org", [name |-> name], 201, OrgOut(org)))
    /\ UNCHANGED <<api_keys, now, issued, users, current_user>>

\* add_member_endpoint up to the SELECT of the user: require_org_role,
\* the grant check and the lookup by email.
MemberCheck(p, org_id, email, role) ==
    /\ pc[p] = "idle"
    /\ current_user[p] # 0
    /\ LET req == [org_id |-> org_id, email |-> email, role |-> role]
           actor == require_org_role(org_id, current_user[p], KeyManagers)
           found == { i \in 1..Len(users) : users[i].email = email }
       IN  IF actor.status # 200
           THEN Answer(p, Response("add_member", req, actor.status, [detail |-> actor.detail]))
           ELSE IF role = "owner" /\ actor.role # "owner"
           THEN Answer(p, Response("add_member", req, 403,
                                   [detail |-> "Only owners can grant owner role"]))
           ELSE IF found = {}
           THEN Answer(p, Response("add_member", req, 404, [detail |-> "User not found"]))
           ELSE Continue(p, "member_select",
                         [op |-> "add_member", req |-> req, org_id |-> org_id,
                          user_id |-> CHOOSE i \in found : TRUE, role |-> role,
                          actor_role |-> actor.role, existing |-> NULL])
    /\ UNCHANGED <<api_keys, now, issued>>
    /\ UNCHANGED org_vars

\* existing = get_membership(...) and the revoke check on what it loaded.
MemberSelect(p) ==
    /\ pc[p] = "member_select"
    /\ LET s == sess[p]
       IN  IF ~IsMember(s.org_id, s.user_id)
           THEN Continue(p, "member_commit", s)
           ELSE LET existing == org_members[<<s.org_id, s.user_id>>]
                IN  IF s.actor_role # "owner" /\ existing = "owner" /\ s.role # "owner"
                    THEN Answer(p, Response("add_member", s.req, 403,
                                            [detail |-> "Only owners can revoke owner role"]))
                    ELSE IF existing = "owner" /\ s.role # "owner"
                    THEN Continue(p, "member_count", [s EXCEPT !.existing = Some(existing)])
                    ELSE Continue(p, "member_commit", [s EXCEPT !.existing = Some(existing)])
    /\ UNCHANGED <<api_keys, now, issued>>
    /\ UNCHANGED org_vars

\* The demotion that counts the other owners as it finds them.
MemberCount(p) ==
    /\ pc[p] = "member_count"
    /\ IF count_org_owners(sess[p].org_id, sess[p].user_id) = 0
       THEN Answer(p, Response("add_member", sess[p].req, 400,
                               [detail |-> "Org must have at least one owner"]))
       ELSE Continue(p, "member_commit", sess[p])
    /\ UNCHANGED <<api_keys, now, issued>>
    /\ UNCHANGED org_vars

\* db.commit() and db.refresh(): the UPDATE of a loaded row whose role
\* attribute changed, or the INSERT of a new row, which the unique
\* constraint on (org_id, user_id) refuses when the row has appeared since.
MemberCommit(p) ==
    /\ pc[p] = "member_commit"
    /\ LET s == sess[p]
           k == <<s.org_id, s.user_id>>
       IN  IF s.existing = NULL
           THEN IF k \in DOMAIN org_members
                THEN /\ org_members' = org_members
                     /\ Answer(p, Response("add_member", s.req, 500,
                                           [detail |-> "Internal Server Error"]))
                ELSE /\ org_members' = org_members @@ (k :> s.role)
                     /\ Answer(p, Response("add_member", s.req, 201,
                                           OrgMemberOut(users[s.user_id], s.role)))
           ELSE /\ org_members' = IF s.existing = Some(s.role)
                                  THEN org_members
                                  ELSE [org_members EXCEPT ![k] = s.role]
                /\ Answer(p, Response("add_member", s.req, 201,
                                      OrgMemberOut(users[s.user_id], org_members'[k])))
    /\ UNCHANGED <<api_keys, now, issued, users, orgs, current_user>>

\* The org and member endpoints for the sessions P, session p carrying
\* the token of a user in U[p], adding members with the roles R.
OrgCalls(P, U, R) ==
    \/ \E p \in P : \E user_id \in U[p] : getCurrentUser(p, user_id)
    \/ \E p \in P, name \in OrgNames : CreateOrg(p, name)
    \/ \E p \in P, org_id \in 1..MaxOrgs, email \in MemberEmails, role \in R :
          MemberCheck(p, org_id, email, role)
    \/ \E p \in P : MemberSelect(p)
    \/ \E p \in P : MemberCount(p)
    \/ \E p \in P : MemberCommit(p)

\* Two sessions, of users 1 and 2, interleave at every round trip.
NextOrgs == OrgCalls(Procs, [p \in Procs |-> IF p = "r1" THEN {1} ELSE {2}], VALID_ROLES)

SpecOrgs == InitOrgs /\ [][NextOrgs]_vars

\* ------------------------------------------------------ the key endpoints
create_key_endpoint(p, org_id, name, random_part) ==
    /\ current_user[p] # 0
    /\ LET actor == require_org_role(org_id, current_user[p], KeyManagers)
       IN  IF actor.status # 200
           THEN /\ pc[p] = "idle"
                /\ Finish(p, Response("create", [org_id |-> org_id, name |-> name],
                                      actor.status, [detail |-> actor.detail]))
                /\ UNCHANGED <<api_keys, now, issued>>
           ELSE CreateGenerate(p, org_id, name, random_part)

list_keys_endpoint(p, org_id) ==
    /\ current_user[p] # 0
    /\ LET actor == require_org_role(org_id, current_user[p], KeyManagers)
       IN  IF actor.status # 200
           THEN /\ pc[p] = "idle"
                /\ Finish(p, Response("list", [org_id |-> org_id],
                                      actor.status, [detail |-> actor.detail]))
                /\ UNCHANGED <<api_keys, now, issued>>
           ELSE ListKeys(p, org_id)

revoke_key_endpoint(p, org_id, key_id) ==
    /\ current_user[p] # 0
    /\ LET actor == require_org_role(org_id, current_user[p], KeyManagers)
       IN  IF actor.status # 200
           THEN /\ pc[p] = "idle"
                /\ Finish(p, Response("revoke", [org_id |-> org_id, key_id |-> key_id],
                                      actor.status, [detail |-> actor.detail]))
                /\ UNCHANGED <<api_keys, now, issued>>
           ELSE RevokeSelect(p, org_id, key_id)

\* Session r1 manages the members of the org it created while session r2,
\* carrying the token of user 2 or of user 3, calls the key endpoints.
NextKeyEndpoints ==
    \/ OrgCalls({"r1"}, [p \in Procs |-> {1}], VALID_ROLES)
    \/ \E user_id \in {2, 3} : getCurrentUser("r2", user_id)
    \/ \E org_id \in 1..MaxOrgs, name \in Names :
          create_key_endpoint("r2", org_id, name, CHOOSE r \in TokenHexDraws : TRUE)
    \/ CreateCommit("r2")
    \/ \E org_id \in 1..MaxOrgs : list_keys_endpoint("r2", org_id)
    \/ \E org_id \in 1..MaxOrgs, key_id \in 1..(Len(api_keys) + 1) :
          revoke_key_endpoint("r2", org_id, key_id)
    \/ RevokeCommit("r2")

SpecKeyEndpoints == InitOrgs /\ [][NextKeyEndpoints]_vars

\* ------------------------------------------------- the Redis client pool
\* sync_redis.from_url(...): a new client, open, numbered in order of
\* creation.
NewClient == [open |-> TRUE, after |-> closes]

Returned(t, op, client, raised) ==
    [thread |-> t, op |-> op, client |-> client, raised |-> raised]

\* get_redis: if _sync_pool is None
GetRedisCheck(t) ==
    /\ rd_pc[t] = "idle"
    /\ rd_pc' = [rd_pc EXCEPT ![t] = IF sync_pool = 0 THEN "get_create" ELSE "get_return"]
    /\ rd_out' = NoReturn
    /\ UNCHANGED <<sync_pool, clients, closes>>
    /\ UNCHANGED <<key_vars, rl_vars, org_vars>>

\* get_redis: _sync_pool = sync_redis.from_url(...)
GetRedisCreate(t) ==
    /\ rd_pc[t] = "get_create"
    /\ Len(clients) < MaxClients
    /\ clients' = Append(clients, NewClient)
    /\ sync_pool' = Len(clients) + 1
    /\ rd_pc' = [rd_pc EXCEPT ![t] = "get_return"]
    /\ rd_out' = NoReturn
    /\ UNCHANGED closes
    /\ UNCHANGED <<key_vars, rl_vars, org_vars>>

\* get_redis: return _sync_pool, the global as it is read now.
GetRedisReturn(t) ==
    /\ rd_pc[t] = "get_return"
    /\ rd_pc' = [rd_pc EXCEPT ![t] = "idle"]
    /\ rd_out' = Returned(t, "get_redis", sync_pool, "none")
    /\ UNCHANGED <<sync_pool, clients, closes>>
    /\ UNCHANGED <<key_vars, rl_vars, org_vars>>

\* close_redis: if _sync_pool is not None; with no client the call
\* returns at once.
CloseRedisCheck(t) ==
    /\ rd_pc[t] = "idle"
    /\ closes < MaxCloses
    /\ closes' = closes + 1
    /\ IF sync_pool = 0
       THEN /\ rd_pc' = rd_pc
            /\ rd_out' = Returned(t, "close_redis", 0, "none")
       ELSE /\ rd_pc' = [rd_pc EXCEPT ![t] = "close_close"]
            /\ rd_out' = NoReturn
    /\ UNCHANGED <<sync_pool, clients>>
    /\ UNCHANGED <<key_vars, rl_vars, org_vars>>

\* close_redis: _sync_pool.close() on the global as it is read now; on
\* None the attribute lookup raises AttributeError out of the call.
CloseRedisClose(t) ==
    /\ rd_pc[t] = "close_close"
    /\ IF sync_pool = 0
       THEN /\ clients' = clients
            /\ rd_pc' = [rd_pc EXCEPT ![t] = "idle"]
            /\ rd_out' = Returned(t, "close_redis", 0, "AttributeError")
       ELSE /\ clients' = [clients EXCEPT ![sync_pool].open = FALSE]
            /\ rd_pc' = [rd_pc EXCEPT ![t] = "close_clear"]
            /\ rd_out' = NoReturn
    /\ UNCHANGED <<sync_pool, closes>>
    /\ UNCHANGED <<key_vars, rl_vars, org_vars>>

\* close_redis: _sync_pool = None, and the return.
CloseRedisClear(t) ==
    /\ rd_pc[t] = "close_clear"
    /\ sync_pool' = 0
    /\ rd_pc' = [rd_pc EXCEPT ![t] = "idle"]
    /\ rd_out' = Returned(t, "close_redis", 0, "none")
    /\ UNCHANGED <<clients, closes>>
    /\ UNCHANGED <<key_vars, rl_vars, org_vars>>

\* The threads of the worker call get_redis and close_redis, switching
\* between any two reads or writes of the global.
NextPool ==
    \/ \E t \in Threads : GetRedisCheck(t)
    \/ \E t \in Threads : GetRedisCreate(t)
    \/ \E t \in Threads : GetRedisReturn(t)
    \/ \E t \in Threads : CloseRedisCheck(t)
    \/ \E t \in Threads : CloseRedisClose(t)
    \/ \E t \in Threads : CloseRedisClear(t)

SpecPool == Init /\ [][NextPool]_vars

\* ================================================================ claims
\* Session p's step is the lookup of an authentication that presents
\* `plaintext` and finds a row.
LookupFinds(p, plaintext) ==
    /\ pc[p] = "idle"
    /\ pc'[p] = "auth_touch"
    /\ sess'[p].raw_key = Header(plaintext)

\* Session p's step is the lookup of an authentication that presents
\* `plaintext` and answers at once.
LookupAnswers(p, plaintext) ==
    /\ pc[p] = "idle"
    /\ out'.proc = p
    /\ out'.op = "auth"
    /\ out'.req.raw_key = Header(plaintext)

\* A revoke that answers 200 has left its key inactive.
C1_RevokeAnswersInactive ==
    (out.op = "revoke" /\ out.status = 200) =>
        /\ ~out.body.is_active
        /\ ~api_keys[out.body.id].is_active

\* C1: once revoke_api_key has succeeded for a key (its row is inactive from
\* the very step that answers 200), no later authentication that presents
\* the key's plaintext gets past the lookup: it is answered 401.
C1_RevokedKeyIsRefused ==
    /\ [](C1_RevokeAnswersInactive)
    /\ [][\A p \in Procs : \A e \in issued :
            ~api_keys[e.id].is_active =>
                /\ ~LookupFinds(p, e.key)
                /\ LookupAnswers(p, e.key) => out'.status = 401]_vars

\* A revoked key's plaintext has just been refused.
C1_Witness ==
    /\ out.op = "auth"
    /\ out.status = 401
    /\ \E e \in issued : out.req.raw_key = Header(e.key) /\ ~api_keys[e.id].is_active

\* C2: revocation is one-way: a row whose is_active is false keeps it false
\* over every step of every session.
C2_RevocationIsOneWay ==
    [][\A i \in Ids : ~api_keys[i].is_active => ~api_keys'[i].is_active]_vars

\* An authentication has written last_used_at and the key it found is
\* revoked: its touch and a revoke of the same key overlapped.
C2_Witness ==
    \E p \in Procs :
        /\ pc[p] = "auth_refresh"
        /\ ~api_keys[sess[p].key_id].is_active
        /\ api_keys[sess[p].key_id].last_used_at # NULL

\* C3: an authentication whose key has expires_at set at or before the
\* current time is refused (401), the instant expires_at = now included; a
\* key whose expires_at is NULL is never refused by the expiry check.
C3_ExpiredKeyIsRefused ==
    [][\A p \in Procs :
          (pc[p] = "auth_touch" /\ pc'[p] # "auth_touch") =>
              /\ (sess[p].expires_at # NULL /\ sess[p].expires_at[1] <= now)
                    => (out'.proc = p /\ out'.status = 401)
              /\ sess[p].expires_at = NULL => pc'[p] = "auth_refresh"]_vars

\* The row an authentication in flight has found has the digest of the
\* credential presented.
C4_FoundRowMatches ==
    \A p \in Procs :
        pc[p] \in {"auth_touch", "auth_refresh"} =>
            /\ sess[p].key_id \in Ids
            /\ api_keys[sess[p].key_id].key_hash = hash_key(sess[p].raw_key.value)

\* The record returned has that digest, and the credential is the plaintext
\* the record's create call returned.
C4_ReturnedRowMatches ==
    (out.op = "auth" /\ out.status = 200) =>
        /\ out.body.key_hash = hash_key(out.req.raw_key.value)
        /\ \E e \in issued : e.id = out.body.id /\ out.req.raw_key = Header(e.key)

\* C4: an authentication succeeds only with a credential whose digest is
\* the key_hash of a stored key that is active when it is looked up; the
\* record returned is the one with that key_hash; a credential that no
\* create call has returned never authenticates.
C4_OnlyIssuedCredentials ==
    /\ [](DigestsDistinct /\ C4_FoundRowMatches /\ C4_ReturnedRowMatches)
    /\ [][\A p \in Procs :
            (pc[p] = "idle" /\ pc'[p] = "auth_touch") =>
                api_keys[sess'[p].key_id].is_active]_vars

\* An authentication has succeeded with the plaintext of the record it
\* returns, while another key is stored that the credential does not match.
C4_Witness ==
    /\ out.op = "auth"
    /\ out.status = 200
    /\ \E e \in issued : e.id = out.body.id /\ out.req.raw_key = Header(e.key)
    /\ \E i \in Ids : i # out.body.id /\ api_keys[i].is_active

\* The step of a create call that answers 201.
C5_CreateStep(p) ==
    (pc[p] = "create_commit" /\ out'.proc = p /\ out'.status = 201) =>
        /\ Len(api_keys') = Len(api_keys) + 1
        /\ SubSeq(api_keys', 1, Len(api_keys)) = api_keys
        /\ LET row == api_keys'[Len(api_keys')]
           IN  /\ row.is_active
               /\ row.id = out'.body.id
               /\ row.org_id = out'.req.org_id
               /\ row.org_id = sess[p].org_id
               /\ row.key_prefix = SubSeq(out'.body.key, 1, PREFIX_LEN)
               /\ row.key_hash = hash_key(out'.body.key)
               /\ out'.body.key_prefix = row.key_prefix

\* The steps of an authentication with an issued plaintext.
C5_AuthSteps(p) ==
    /\ \A e \in issued :
          api_keys[e.id].is_active =>
              /\ ~LookupAnswers(p, e.key)
              /\ LookupFinds(p, e.key) => sess'[p].key_id = e.id
    /\ ( /\ pc[p] = "auth_touch"
         /\ pc'[p] # "auth_touch"
         /\ (sess[p].expires_at = NULL \/ sess[p].expires_at[1] > now) )
          => pc'[p] = "auth_refresh"
    /\ (pc[p] = "auth_refresh" /\ pc'[p] # "auth_refresh")
          => (out'.proc = p /\ out'.op = "auth" /\ out'.status = 200)

\* The record an issued plaintext resolves to.
C5_ResolvesToOrg ==
    (out.op = "auth" /\ out.status = 200) =>
        \A e \in issued :
            out.req.raw_key = Header(e.key) =>
                (out.body.id = e.id /\ out.body.org_id = e.org_id)

RevokeLookup(p) ==
    /\ pc[p] = "idle"
    /\ \/ pc'[p] = "revoke_commit"
       \/ (out'.proc = p /\ out'.op = "revoke")

\* What the revoke that steps was asked.
RevokeAsked(p) == IF pc'[p] = "revoke_commit" THEN sess'[p].req ELSE out'.req

\* A revoke past its lookup holds a key of the org it names.
C6_RevokeInFlightIsScoped ==
    \A p \in Procs :
        pc[p] = "revoke_commit" =>
            /\ sess[p].key_id \in Ids
            /\ api_keys[sess[p].key_id].org_id = sess[p].req.org_id

\* C6: a revoke of a key id that does not exist, or that belongs to another
\* org, answers 404 and leaves every row as it was; no revoke ever changes
\* a row of an org other than the one it names.
C6_ForeignRevokeIsNotFound ==
    /\ [](C6_RevokeInFlightIsScoped)
    /\ [][\A p \in Procs :
            /\ RevokeLookup(p) =>
                  LET req == RevokeAsked(p)
                  IN  (req.key_id \notin Ids \/ api_keys[req.key_id].org_id # req.org_id)
                        => /\ out'.proc = p
                           /\ out'.status = 404
                           /\ api_keys' = api_keys
            /\ (out'.proc = p /\ out'.op = "revoke" /\ out'.status = 404)
                  => api_keys' = api_keys
            /\ (out'.proc = p /\ out'.op = "revoke" /\ out'.status = 200)
                  => \A i \in Ids :
                        api_keys[i].org_id # out'.req.org_id => api_keys'[i] = api_keys[i]]_vars

\* A revoke of another org's active key has just answered 404.
C6_Witness ==
    /\ out.op = "revoke"
    /\ out.status = 404
    /\ out.req.key_id \in Ids
    /\ api_keys[out.req.key_id].org_id # out.req.org_id
    /\ api_keys[out.req.key_id].is_active

\* C7: a revoke of an already revoked key of the same org finds the key
\* (no 404), answers 200 with the record, and leaves the table as it was.
C7_RevokeIsIdempotent ==
    [][\A p \in Procs :
          /\ RevokeLookup(p) =>
                LET req == RevokeAsked(p)
                IN  ( /\ req.key_id \in Ids
                      /\ api_keys[req.key_id].org_id = req.org_id
                      /\ ~api_keys[req.key_id].is_active )
                      => pc'[p] = "revoke_commit"
          /\ ( /\ pc[p] = "revoke_commit"
               /\ pc'[p] # "revoke_commit"
               /\ ~api_keys[sess[p].key_id].is_active )
                => /\ api_keys' = api_keys
                   /\ out'.proc = p
                   /\ out'.status = 200
                   /\ out'.body = ApiKeyOut(api_keys[sess[p].key_id])]_vars

\* A revoke has found a key that is revoked already and is about to commit.
C7_Witness ==
    \E p \in Procs :
        /\ pc[p] = "revoke_commit"
        /\ ~api_keys[sess[p].key_id].is_active

\* A listing shows every key of its org with the is_active it has.
C8_ListShowsEveryKey ==
    (out.op = "list" /\ out.status = 200) =>
        \A i \in Ids :
            api_keys[i].org_id = out.req.org_id =>
                \E j \in DOMAIN out.body :
                    /\ out.body[j].id = i
                    /\ out.body[j].is_active = api_keys[i].is_active

\* C8: no step removes a row or moves it to another org, so the keys of an
\* org never shrink; a listing shows every key of its org, the revoked ones
\* with is_active = false.
C8_RevocationIsSoft ==
    /\ [](C8_ListShowsEveryKey)
    /\ [][/\ Len(api_keys') >= Len(api_keys)
           /\ \A i \in Ids :
                 /\ api_keys'[i].id = api_keys[i].id
                 /\ api_keys'[i].org_id = api_keys[i].org_id]_vars

\* A listing has just shown a revoked key.
C8_Witness ==
    /\ out.op = "list"
    /\ \E j \in DOMAIN out.body : ~out.body[j].is_active

\* C9: no two rows have the same key_hash, also when two create calls that
\* drew the same key are in flight together: the second insert is rejected.
C9_KeyHashIsUnique ==
    \A i, j \in Ids : api_keys[i].key_hash = api_keys[j].key_hash => i = j

\* While one create call waits to commit, the other's insert of the same
\* digest has just been rejected.
C9_Witness ==
    /\ out.op = "create"
    /\ out.status = 500
    /\ \E i \in Ids : \E p \in Procs :
          /\ pc[p] = "create_commit"
          /\ hash_key(sess[p].plaintext) = api_keys[i].key_hash

\* The columns of api_keys.
Columns ==
    {"id", "org_id", "name", "key_prefix", "key_hash", "is_active",
     "created_at", "expires_at", "last_used_at"}

\* The fields that carry the plaintext or its digest.
Secrets == {"key", "key_hash"}

\* A response item without a secret field, its prefix no whole plaintext.
HoldsNoSecret(item) ==
    /\ DOMAIN item \cap Secrets = {}
    /\ \A e \in issued : item.key_prefix # e.key

\* What rows and responses hold in every state.
C10_RowsAndResponses ==
    /\ \A i \in Ids :
          /\ DOMAIN api_keys[i] = Columns
          /\ \A e \in issued : api_keys[i].key_prefix # e.key
    /\ \A e, f \in issued : (e.id = f.id \/ e.key = f.key) => e = f
    /\ (out.op = "list" /\ out.status = 200) =>
          \A j \in DOMAIN out.body : HoldsNoSecret(out.body[j])
    /\ (out.op = "revoke" /\ out.status = 200) => HoldsNoSecret(out.body)
    /\ (out.op = "create" /\ out.status = 201) =>
          [id |-> out.body.id, org_id |-> out.req.org_id, key |-> out.body.key] \in issued

\* C10: the plaintext of a key is in the response of the create call that
\* issued it and in no other: a row has no plaintext column, the responses
\* of list and revoke have neither a plaintext nor a key_hash field, and a
\* create call never answers a plaintext that was answered before.
C10_PlaintextIsShownOnce ==
    /\ [](C10_RowsAndResponses)
    /\ [][(out'.op = "create" /\ out'.status = 201)
            => \A e \in issued : e.key # out'.body.key]_vars

\* A listing has just shown a key whose plaintext a create call answered.
C10_Witness ==
    /\ out.op = "list"
    /\ \E j \in DOMAIN out.body : \E e \in issued : e.id = out.body[j].id

\* C11: a listing is ordered by created_at descending, and keys of equal
\* created_at by id descending, so that the stored rows determine the order.
C11_ListOrderIsDetermined ==
    (out.op = "list" /\ out.status = 200) =>
        \A i, j \in DOMAIN out.body :
            i < j => \/ out.body[i].created_at > out.body[j].created_at
                     \/ /\ out.body[i].created_at = out.body[j].created_at
                        /\ out.body[i].id > out.body[j].id

\* C12: a listing answers exactly the rows of the org it was asked for,
\* each once and as the store holds it, active and revoked alike: none of
\* the org's keys is missing and no key of another org is shown.
C12_ListIsExactlyTheOrgsKeys ==
    (out.op = "list" /\ out.status = 200) =>
        /\ { out.body[j].id : j \in DOMAIN out.body }
              = { i \in Ids : api_keys[i].org_id = out.req.org_id }
        /\ \A j, k \in DOMAIN out.body : out.body[j].id = out.body[k].id => j = k
        /\ \A j \in DOMAIN out.body : out.body[j] = ApiKeyOut(api_keys[out.body[j].id])

\* A listing has just answered the revoked key of its org and not the key
\* another org holds.
C12_Witness ==
    /\ out.op = "list"
    /\ \E j \in DOMAIN out.body : ~out.body[j].is_active
    /\ \E i \in Ids :
          /\ api_keys[i].org_id # out.req.org_id
          /\ \A j \in DOMAIN out.body : out.body[j].id # i

\* The request carries no credential: no X-API-Key header, or an empty one.
NoCredential(raw_key) == ~raw_key.present \/ raw_key.value = <<>>

\* Session p's step answers an authentication.
AuthAnswers(p) ==
    /\ pc[p] \in {"idle", "auth_touch", "auth_refresh"}
    /\ out'.proc = p
    /\ out'.op = "auth"

\* C19: a request without a credential is answered 401 "Missing X-API-Key
\* header" by the step that receives it: no lookup is started for it, and
\* the table is as it was.
C19_NoCredentialIsRefusedUnseen ==
    /\ [](\A p \in Procs :
            pc[p] \in {"auth_touch", "auth_refresh"} => ~NoCredential(sess[p].raw_key))
    /\ [][\A p \in Procs :
            (AuthAnswers(p) /\ NoCredential(out'.req.raw_key))
                => /\ pc[p] = "idle"
                   /\ out'.status = 401
                   /\ out'.body = [detail |-> "Missing X-API-Key header"]
                   /\ api_keys' = api_keys]_vars

\* A request with an empty X-API-Key header has just been refused while the
\* table holds an active key.
C19_Witness ==
    /\ out.op = "auth"
    /\ out.req.raw_key = Header(<<>>)
    /\ out.status = 401
    /\ \E i \in Ids : api_keys[i].is_active

\* C20 as stated: every failed authentication is answered alike, whatever
\* its cause: with the status and the detail an unknown credential gets.
C20_FailuresAreAlike ==
    (out.op = "auth" /\ out.status # 200) =>
        /\ out.status = 401
        /\ out.body = [detail |-> "Invalid or revoked API key"]

\* C20: every failed authentication is answered 401; a presented credential
\* that fails (never stored, revoked or expired) gets one and the same
\* detail, a missing credential gets a detail of its own.
C20_PresentedFailuresAreAlike ==
    (out.op = "auth" /\ out.status # 200) =>
        /\ out.status = 401
        /\ out.body = [detail |-> IF NoCredential(out.req.raw_key)
                                  THEN "Missing X-API-Key header"
                                  ELSE "Invalid or revoked API key"]

\* The plaintext of an active key past its expires_at has just been refused.
C20_Witness ==
    /\ out.op = "auth"
    /\ out.status = 401
    /\ \E i \in Ids :
          /\ api_keys[i].key_hash = hash_key(out.req.raw_key.value)
          /\ api_keys[i].is_active
          /\ api_keys[i].expires_at # NULL
          /\ api_keys[i].expires_at[1] < now

\* ------------------------------------------------- rate limiter claims
\* Caller p's step is the increment of a call for key_id in the window
\* that starts at window_start.
IncrStep(p, key_id, window_start) ==
    /\ rl_pc[p] = "idle"
    /\ \/ /\ rl_pc'[p] = "expire"
          /\ rl_sess'[p].key_id = key_id
          /\ rl_sess'[p].window_start = window_start
       \/ /\ rl_pc'[p] = "idle"
          /\ rl_out'.proc = p
          /\ rl_out'.key_id = key_id
          /\ rl_out'.window_start = window_start

\* Caller p's step is the EXPIRE of such a call.
ExpireStep(p, key_id, window_start) ==
    /\ rl_pc[p] = "expire"
    /\ rl_pc'[p] = "idle"
    /\ rl_sess[p].key_id = key_id
    /\ rl_sess[p].window_start = window_start

WindowStarts == { t \in 0..MaxUnix : t % window_seconds = 0 }

\* C13: on a counter that starts fresh, the n-th call is allowed with
\* remaining = limit - n for n = 1..limit (limit-1 down to 0, in order) and
\* denied with remaining = 0 from n = limit + 1 on; what a call returns is
\* what its increment observed.
C13_RemainingCountsDown ==
    /\ \A k \in DOMAIN rl_log : \A n \in 1..Len(rl_log[k]) :
          LET r == rl_log[k][n].result
          IN  /\ n <= r.limit => r.allowed /\ r.remaining = r.limit - n
              /\ n > r.limit => ~r.allowed /\ r.remaining = 0
    /\ rl_out # NoResult =>
          LET k == <<"rl", rl_out.key_id, rl_out.window_start>>
          IN  /\ k \in DOMAIN rl_log
              /\ rl_out.current_count \in 1..Len(rl_log[k])
              /\ rl_log[k][rl_out.current_count].result = rl_out.result

\* The call after the limit-th one of a window has just been denied.
C13_Witness ==
    /\ rl_out # NoResult
    /\ rl_out.current_count = rl_out.result.limit + 1
    /\ ~rl_out.result.allowed
    /\ rl_out.result.remaining = 0

\* C14: a call for key A in a window touches the counter (A, window_start)
\* and no other: every other Redis key is there or not as before, with the
\* count and expiry it had.  The first call for a key in a window is
\* therefore allowed with remaining = limit - 1 whatever the other keys'
\* counters hold.
C14_CountersAreDisjoint ==
    [][\A p \in RlProcs, a \in KeyIds, ws \in WindowStarts :
          /\ (IncrStep(p, a, ws) \/ ExpireStep(p, a, ws)) =>
                \A k \in DOMAIN redis \cup DOMAIN redis' :
                    k # <<"rl", a, ws>> =>
                        /\ k \in DOMAIN redis
                        /\ k \in DOMAIN redis'
                        /\ redis'[k] = redis[k]
          /\ (IncrStep(p, a, ws) /\ <<"rl", a, ws>> \notin DOMAIN redis) =>
                /\ rl_pc'[p] = "expire"
                /\ rl_sess'[p].result.allowed
                /\ rl_sess'[p].result.remaining = rl_sess'[p].limit - 1]_vars

\* Key 1 is past its limit and the first call for key 2 in the same window
\* has just returned allowed with remaining = limit - 1.
C14_Witness ==
    /\ rl_out # NoResult
    /\ rl_out.key_id = 2
    /\ rl_out.current_count = 1
    /\ rl_out.result.allowed
    /\ rl_out.result.remaining = rl_out.result.limit - 1
    /\ <<"rl", 1, rl_out.window_start>> \in DOMAIN redis
    /\ redis[<<"rl", 1, rl_out.window_start>>].count > rl_out.result.limit

\* C15: a counter is created without expiry by the increment that returns
\* 1; its expiry changes only once, from none to 2 * window_seconds after
\* the EXPIRE of that same call; and a counter without expiry is one whose
\* creating call has not returned yet.
C15_ExpiryIsSetOnce ==
    /\ [](\A k \in DOMAIN redis :
            redis[k].expire_at = NULL =>
                \E p \in RlProcs :
                    /\ rl_pc[p] = "expire"
                    /\ rl_sess[p].redis_key = k
                    /\ rl_sess[p].current_count = 1)
    /\ [][/\ \A k \in DOMAIN redis' \ DOMAIN redis :
                redis'[k] = [count |-> 1, expire_at |-> NULL]
          /\ \A k \in DOMAIN redis \cap DOMAIN redis' :
                redis'[k].expire_at # redis[k].expire_at =>
                    /\ redis[k].expire_at = NULL
                    /\ redis'[k].expire_at = Some(unix + 2 * window_seconds)
                    /\ \E p \in RlProcs :
                          /\ rl_pc[p] = "expire"
                          /\ rl_pc'[p] = "idle"
                          /\ k = <<"rl", rl_sess[p].key_id, rl_sess[p].window_start>>
                          /\ rl_sess[p].current_count = 1]_vars

\* A counter has been incremented again at a later second than its first
\* increment, and its expiry is the one its first call set.
C15_Witness ==
    \E k \in DOMAIN redis :
        /\ redis[k].count >= 2
        /\ rl_log[k][2].at > rl_log[k][1].at
        /\ redis[k].expire_at = Some(rl_log[k][1].at + 2 * window_seconds)

\* The number of calls on Redis key k that were answered allowed=true.
AllowedOn(k) ==
    Cardinality({ n \in 1..Len(rl_log[k]) : rl_log[k][n].result.allowed })

\* C16: callers that overlap on one counter observe the counts 1, 2, ..., n
\* in the order their increments take effect: no two observe the same
\* count, the counter holds the number of calls made, each increment
\* raises it by one, and at most `limit` of the calls are allowed.
C16_NoIncrementIsLost ==
    /\ [](\A k \in DOMAIN rl_log :
            /\ \A n \in 1..Len(rl_log[k]) : rl_log[k][n].current_count = n
            /\ k \in DOMAIN redis => redis[k].count = Len(rl_log[k])
            /\ AllowedOn(k) <= rate_limit_rpm)
    /\ [][\A p \in RlProcs, a \in KeyIds, ws \in WindowStarts :
            IncrStep(p, a, ws) =>
                /\ <<"rl", a, ws>> \in DOMAIN redis'
                /\ redis'[<<"rl", a, ws>>].count =
                      (IF <<"rl", a, ws>> \in DOMAIN redis
                       THEN redis[<<"rl", a, ws>>].count ELSE 0) + 1]_vars

\* While the call that created a counter has not returned, the other
\* caller has made the call on it that exceeds the limit.
C16_Witness ==
    /\ rl_pc["w1"] = "expire"
    /\ rl_out.proc = "w2"
    /\ rl_out.key_id = rl_sess["w1"].key_id
    /\ rl_out.window_start = rl_sess["w1"].window_start
    /\ rl_out.current_count = rate_limit_rpm + 1
    /\ ~rl_out.result.allowed

\* The calls for key_id that ran at a time in from..(to - 1) and were
\* answered allowed=true.
AllowedCalls(key_id, from, to) ==
    UNION { { <<k, n>> : n \in { m \in 1..Len(rl_log[k]) :
                                    /\ rl_log[k][m].at >= from
                                    /\ rl_log[k][m].at < to
                                    /\ rl_log[k][m].result.allowed } } :
            k \in { j \in DOMAIN rl_log : j[2] = key_id } }

\* C17: with the limit constant, the allowed calls for one key are at most
\* `limit` in any window, at most 2 * limit in any two adjacent windows,
\* and at most 2 * limit in any interval of window_seconds.
C17_AllowedPerWindow ==
    \A a \in { k[2] : k \in DOMAIN rl_log } :
        /\ \A ws \in WindowStarts :
              /\ Cardinality(AllowedCalls(a, ws, ws + window_seconds)) <= rate_limit_rpm
              /\ Cardinality(AllowedCalls(a, ws, ws + 2 * window_seconds)) <= 2 * rate_limit_rpm
        /\ \A t \in 0..MaxUnix :
              Cardinality(AllowedCalls(a, t, t + window_seconds)) <= 2 * rate_limit_rpm

\* 2 * limit calls were allowed within an interval of window_seconds that
\* straddles a window boundary.
C17_Witness ==
    \E t \in 0..MaxUnix :
        /\ t % window_seconds # 0
        /\ Cardinality(AllowedCalls(1, t, t + window_seconds)) = 2 * rate_limit_rpm

\* C18: an authentication that succeeds has had check_rate_limit called
\* for its key before it answers; one that fails leaves every counter as
\* it was.
C18_AuthenticatedIsRateLimited ==
    /\ []((out.op = "auth" /\ out.status = 200) =>
            \E k \in DOMAIN rl_log : k[2] = out.body.id)
    /\ [][\A p \in Procs :
            (AuthAnswers(p) /\ out'.status # 200) => redis' = redis]_vars

\* C21: once the lookup of an authentication has found an active key that
\* is not expired, the request is answered 200 with that key's record,
\* whether or not the write of last_used_at is stored.
C21_TouchFailureStillAuthenticates ==
    [][\A p \in Procs :
          (/\ pc[p] \in {"auth_touch", "auth_refresh"}
           /\ pc'[p] = "idle"
           /\ ~(sess[p].expires_at # NULL /\ sess[p].expires_at[1] < now))
              => /\ out'.status = 200
                 /\ out'.body.id = sess[p].key_id]_vars

\* C22: an authentication is answered 200 or 401 and nothing else: with
\* the store unavailable it is refused as unauthorized.
C22_UnavailableIsUnauthorized ==
    (out.op = "auth" /\ out.status # 200) => out.status = 401

\* C27: a counter in the store has an expiry, or the call that created it
\* is still between its INCR and its EXPIRE: no call leaves behind a
\* counter that Redis will never remove.
C27_CounterHasExpiry ==
    \A k \in DOMAIN redis :
        \/ redis[k].expire_at # NULL
        \/ \E p \in RlProcs : rl_pc[p] = "expire" /\ rl_sess[p].redis_key = k

\* C28: while its window is current, a counter that calls have
\* incremented is in the store and holds the number of those calls: it
\* does not expire, and so does not restart from zero, before
\* window_start + window_seconds.
C28_CounterOutlivesItsWindow ==
    \A k \in DOMAIN rl_log :
        unix < k[3] + window_seconds =>
            /\ k \in DOMAIN redis
            /\ redis[k].count = Len(rl_log[k])

\* A counter has expired, after the end of its window.
C28_Witness ==
    \E k \in DOMAIN rl_log :
        /\ k \notin DOMAIN redis
        /\ unix >= k[3] + window_seconds

\* C29: a call at time T uses window_start = T - (T mod W), a multiple of
\* W with window_start <= T < window_start + W, and answers reset_at =
\* window_start + W > T; two calls for a key use the same counter exactly
\* when their times are in the same window.
C29_WindowArithmetic ==
    /\ \A k \in DOMAIN rl_log : \A n \in 1..Len(rl_log[k]) :
          LET T == rl_log[k][n].at
          IN  /\ k[3] = T - (T % window_seconds)
              /\ k[3] % window_seconds = 0
              /\ k[3] <= T
              /\ T < k[3] + window_seconds
              /\ rl_log[k][n].result.reset_at = k[3] + window_seconds
              /\ rl_log[k][n].result.reset_at > T
    /\ \A j, k \in DOMAIN rl_log :
          \A m \in 1..Len(rl_log[j]), n \in 1..Len(rl_log[k]) :
              j[2] = k[2] =>
                  (j = k <=> rl_log[j][m].at \div window_seconds
                               = rl_log[k][n].at \div window_seconds)

\* Two calls at different seconds of one window have used one counter,
\* and a call in the next window another.
C29_Witness ==
    \E j, k \in DOMAIN rl_log :
        /\ Len(rl_log[j]) >= 2
        /\ rl_log[j][1].at # rl_log[j][2].at
        /\ k[3] = j[3] + window_seconds

\* C30: a row is inserted with last_used_at null; the only step that
\* changes last_used_at of a key is the write of an authentication of that
\* key that goes on to answer 200, and it sets it to the time of that
\* step; the answer shows the stored value.  With authentications one
\* after the other, last_used_at is thus the time of the latest one, and
\* null before the first.
C30_LastUsedAtIsTheLatestAuthentication ==
    [][/\ \A i \in 1..Len(api_keys') : i \notin Ids => api_keys'[i].last_used_at = NULL
       /\ \A p \in Procs :
             (pc[p] = "auth_touch" /\ pc'[p] = "auth_refresh")
                 => api_keys'[sess[p].key_id].last_used_at = <<now>>
       /\ \A i \in Ids :
             api_keys'[i].last_used_at # api_keys[i].last_used_at
                 => \E p \in Procs : /\ pc[p] = "auth_touch"
                                     /\ pc'[p] = "auth_refresh"
                                     /\ sess[p].key_id = i
       /\ \A p \in Procs :
             (pc[p] = "auth_refresh" /\ pc'[p] = "idle")
                 => /\ out'.status = 200
                    /\ out'.body.last_used_at # NULL
                    /\ out'.body.last_used_at = api_keys[sess[p].key_id].last_used_at]_vars

\* A key has just authenticated at a later time than it was created at,
\* while another key has never authenticated.
C30_Witness ==
    /\ out.op = "auth"
    /\ out.status = 200
    /\ out.body.last_used_at = <<now>>
    /\ now > out.body.created_at
    /\ \E i \in Ids : api_keys[i].last_used_at = NULL

\* C26: no two users have the same email, the stored emails are trimmed
\* and lower-cased, and a signup whose email is, so normalized, that of a
\* user registered before its answer is answered 400 "Email already
\* registered" and adds no user.
C26_DuplicateSignupIsRejected ==
    /\ [](\A i, j \in 1..Len(users) :
            /\ users[i].email = users[j].email => i = j
            /\ users[i].email = normalize_email(users[i].email))
    /\ [][\A p \in Procs :
            (/\ out'.proc = p
             /\ out'.op = "signup"
             /\ pc[p] \in {"idle", "signup_commit"}
             /\ \E i \in 1..Len(users) : users[i].email = normalize_email(out'.req.email))
                => /\ out'.status = 400
                   /\ out'.body = [detail |-> "Email already registered"]
                   /\ users' = users]_vars

C24_EveryOrgHasAnOwner ==
    \A org_id \in 1..Len(orgs) :
        \E k \in DOMAIN org_members : k[1] = org_id /\ org_members[k] = "owner"

\* C25: the commit of an add_member_by_email call whose actor role is not
\* owner leaves the set of owners of every org as it was.
C25_OnlyOwnersChangeOwners ==
    [][\A p \in Procs :
          (/\ pc[p] = "member_commit"
           /\ pc'[p] = "idle"
           /\ sess[p].actor_role # "owner")
             => \A org_id \in 1..Len(orgs) :
                   OwnersOf(org_members', org_id) = OwnersOf(org_members, org_id)]_vars

\* The columns no call writes after the INSERT.
Immutable == {"id", "org_id", "name", "key_prefix", "key_hash", "created_at", "expires_at"}

\* Rows a and b are equal in every column but those of W.
SameBut(a, b, W) == \A c \in DOMAIN a \ W : a[c] = b[c]

\* C31: no step changes a stored key's id, org_id, name, key_prefix,
\* key_hash, created_at or expires_at, or removes a row; the commit of a
\* revoke changes only is_active of its key, the commit of an
\* authentication only last_used_at of the key it matched, and lookups,
\* refreshes and listings write nothing.
C31_WritesAreFramed ==
    [][/\ Len(api_keys') >= Len(api_keys)
       /\ \A i \in 1..Len(api_keys) : SameBut(api_keys[i], api_keys'[i], {"is_active", "last_used_at"})
       /\ \A p \in Procs :
            /\ (pc[p] = "revoke_commit" /\ pc'[p] = "idle")
                  => /\ Len(api_keys') = Len(api_keys)
                     /\ \A i \in 1..Len(api_keys) :
                           IF i = sess[p].key_id
                           THEN /\ SameBut(api_keys[i], api_keys'[i], {"is_active"})
                                /\ ~api_keys'[i].is_active
                           ELSE api_keys'[i] = api_keys[i]
            /\ (pc[p] = "auth_touch" /\ pc'[p] = "auth_refresh")
                  => /\ Len(api_keys') = Len(api_keys)
                     /\ \A i \in 1..Len(api_keys) :
                           IF i = sess[p].key_id
                           THEN /\ SameBut(api_keys[i], api_keys'[i], {"last_used_at"})
                                /\ api_keys'[i].last_used_at = <<now>>
                           ELSE api_keys'[i] = api_keys[i]
            /\ (pc[p] \in {"idle", "auth_refresh"} /\ (pc'[p] # pc[p] \/ out'.proc = p))
                  => api_keys' = api_keys
       /\ out'.op = "list" => api_keys' = api_keys]_vars

\* A key that was used and then revoked is shown by a listing with the
\* time of its use.
C31_Witness ==
    /\ out.op = "list"
    /\ out.status = 200
    /\ \E i \in 1..Len(api_keys) :
          /\ ~api_keys[i].is_active
          /\ api_keys[i].last_used_at # <<>>
          /\ api_keys[i].org_id = out.req.org_id

\* C32: the record a successful authentication returns is active, in the
\* response and in the store, and has no expiry at or before the time of
\* the return.
C32_ReturnedRecordIsActive ==
    (out.op = "auth" /\ out.status = 200) =>
        /\ out.body.is_active
        /\ api_keys[out.body.id].is_active
        /\ out.body.expires_at # <<>> => out.body.expires_at[1] > now

\* C35: an authentication answered 401 has written nothing: api_keys is
\* the same before and after the step that refuses it, and no earlier step
\* of the call wrote.
C35_FailedAuthenticationWritesNothing ==
    [][/\ (out'.op = "auth" /\ out'.status = 401) => api_keys' = api_keys
       /\ \A p \in Procs :
            (pc[p] = "idle" /\ pc'[p] = "auth_touch") => api_keys' = api_keys]_vars

\* An expired key that was never used has just been refused.
C35_Witness ==
    /\ out.op = "auth"
    /\ out.status = 401
    /\ \E i \in 1..Len(api_keys) :
          /\ out.req.raw_key.present
          /\ api_keys[i].key_hash = hash_key(out.req.raw_key.value)
          /\ api_keys[i].is_active
          /\ api_keys[i].expires_at # <<>>
          /\ api_keys[i].expires_at[1] < now
          /\ api_keys[i].last_used_at = <<>>

\* C34: a denied call increments the counter like an allowed one: while
\* its window lasts the counter is in Redis and holds the number of calls
\* made for the key, allowed and denied; no step lowers or removes it; and
\* after a denied call every later call on the same counter is denied.
C34_DeniedCallsAreCounted ==
    /\ [](\A k \in DOMAIN rl_log :
            /\ k[3] <= unix /\ unix < k[3] + window_seconds =>
                  /\ k \in DOMAIN redis
                  /\ redis[k].count = Len(rl_log[k])
            /\ \A n, m \in 1..Len(rl_log[k]) :
                  (n < m /\ ~rl_log[k][n].result.allowed) => ~rl_log[k][m].result.allowed)
    /\ [][/\ \A k \in DOMAIN redis :
                (k[3] <= unix' /\ unix' < k[3] + window_seconds) =>
                    /\ k \in DOMAIN redis'
                    /\ redis'[k].count >= redis[k].count
          /\ \A p \in RlProcs :
                (/\ rl_pc[p] = "idle"
                 /\ rl_out'.proc = p
                 /\ ~rl_out'.result.allowed) =>
                    LET k == <<"rl", rl_out'.key_id, rl_out'.window_start>>
                    IN  /\ k \in DOMAIN redis
                        /\ redis'[k].count = redis[k].count + 1
                        /\ rl_out'.current_count = redis'[k].count]_vars

\* The second call past the limit has been denied and counted.
C34_Witness ==
    /\ rl_out # NoResult
    /\ ~rl_out.result.allowed
    /\ rl_out.current_count = rl_out.result.limit + 2
    /\ redis[<<"rl", rl_out.key_id, rl_out.window_start>>].count = rl_out.result.limit + 2

\* C33: no two clients are created without a close_redis call begun
\* between their creations, and while no close_redis call has begun every
\* get_redis returns the first client.
C33_OneClientBetweenCloses ==
    /\ \A i, j \in 1..Len(clients) : clients[i].after = clients[j].after => i = j
    /\ (rd_out.op = "get_redis" /\ closes = 0) => rd_out.client = 1

\* C36: what get_redis returns is a client, and one that is open when it
\* is returned; close_redis raises nothing.
C36_ReturnedClientIsOpen ==
    /\ rd_out.op = "get_redis" =>
          /\ rd_out.client \in 1..Len(clients)
          /\ clients[rd_out.client].open
    /\ rd_out.op = "close_redis" => rd_out.raised = "none"

====
